---- MODULE Spec2Model ----
(***************************************************************************)
(* A model of school.py: the command dispatcher that walks decision_tree   *)
(* with the command-line tokens, and the course schedule queries           *)
(* (get_sorted_courses, Course.weekday, Course.is_ongoing,                 *)
(* get_ongoing_course, get_course_from_argument), the course loader with   *)
(* its type validation, the flag parsing loop, the actions that resolve a  *)
(* course query (open_course, list_attribute, check_course_website), the   *)
(* listings (list_courses, list_finals) and compile_cron_jobs.             *)
(*                                                                         *)
(* Python strings are TLA+ strings, Python lists and tuples are sequences, *)
(* None is the string "None" where a value may be absent.                  *)
(***************************************************************************)
EXTENDS Integers, Sequences, FiniteSets, TLC

VARIABLES
    arguments,          \* sys.argv[1:]; the flag loop pops flags, the descent loop pops tokens
    decision_tree,      \* the node of the decision tree the loop stands at
    parsed_arguments,   \* the alias groups descended into so far
    argument,           \* the token popped by the last loop iteration
    pc,                 \* position in the module-level code
    output,             \* the messages printed (stdout and stderr), in order
    status,             \* how the process ended, "running" before that
    calls,              \* the calls of leaf actions made so far: [fn, args, result]
    argv,               \* the token list the run started with (never changes)
    files,              \* the course definitions os.walk discovers, in discovery order
                        \* (courses, or raw .yaml contents where the loader runs)
    today,              \* datetime.today(): [weekday, hour, minute]
    query,              \* the query a run of the schedule engine evaluates
    answer,             \* its result, [kind |-> "pending"] before it ran
    short,              \* the global flag set by --short / -s
    crontab,            \* the text of /etc/crontab
    website,            \* the text the course website serves at this moment
    cache,              \* the text of the website cache file, None if there is no file
    frame               \* the local variables of the action that is running

vars == <<arguments, decision_tree, parsed_arguments, argument, pc, output, status,
          calls, argv, files, today, query, answer,
          short, crontab, website, cache, frame>>

dispatchVars == <<arguments, decision_tree, parsed_arguments, argument, pc, output,
                  status, calls, argv>>

scheduleVars == <<files, today, query, answer>>

worldVars == <<short, crontab, website, cache, frame>>

-----------------------------------------------------------------------------
(* Bounds of the model *)

\* the longest token list a run starts with
MaxArgs == 3

\* the largest number of course definition files in the courses folder
MaxCourses == 3

-----------------------------------------------------------------------------
(* Strings *)

LOWER == "abcdefghijklmnopqrstuvwxyz"

UPPER == "ABCDEFGHIJKLMNOPQRSTUVWXYZ"

\* s[i] of a Python string, 1-based
Char(s, i) == SubSeq(s, i, i)

LowerLetters == {Char(LOWER, i) : i \in 1..26}

UpperLetters == {Char(UPPER, i) : i \in 1..26}

OrdLower == [c \in LowerLetters |-> CHOOSE i \in 1..26 : Char(LOWER, i) = c]

OrdUpper == [c \in UpperLetters |-> CHOOSE i \in 1..26 : Char(UPPER, i) = c]

\* ord() restricted to the characters the model uses: "-" and " " sort before the
\* upper-case letters, upper-case before lower-case, as in ASCII
Ord(c) ==
    IF c = " " THEN 1
    ELSE IF c = "-" THEN 2
    ELSE IF c \in UpperLetters THEN 10 + OrdUpper[c]
    ELSE IF c \in LowerLetters THEN 40 + OrdLower[c]
    ELSE 99

\* str.startswith
StartsWith(s, prefix) ==
    /\ Len(prefix) <= Len(s)
    /\ SubSeq(s, 1, Len(prefix)) = prefix

\* str < str, Python's lexicographic comparison
RECURSIVE StrLess(_, _)
StrLess(a, b) ==
    IF Len(b) = 0 THEN FALSE
    ELSE IF Len(a) = 0 THEN TRUE
    ELSE IF Char(a, 1) # Char(b, 1) THEN Ord(Char(a, 1)) < Ord(Char(b, 1))
    ELSE StrLess(SubSeq(a, 2, Len(a)), SubSeq(b, 2, Len(b)))

\* tuple < tuple for tuples of strings
RECURSIVE KeyLess(_, _)
KeyLess(k1, k2) ==
    IF Len(k2) = 0 THEN FALSE
    ELSE IF Len(k1) = 0 THEN TRUE
    ELSE IF Head(k1) # Head(k2) THEN StrLess(Head(k1), Head(k2))
    ELSE KeyLess(Tail(k1), Tail(k2))

\* max() of a non-empty set of integers
Max(S) == CHOOSE m \in S : \A x \in S : x <= m

-----------------------------------------------------------------------------
(* The decision tree *)

\* a terminal action: (callable, description); bound is the number of positional
\* arguments functools.partial has already supplied
Leaf(fn, bound) == [kind |-> "leaf", fn |-> fn, bound |-> bound]

\* a dict of decisions, in insertion order
Dict(items) == [kind |-> "dict", items |-> items]

Item(key, val) == [key |-> key, val |-> val]

ProgramTree ==
    Dict(<<
        Item(<<"list">>, Dict(<<
            Item(<<"courses">>, Leaf("list_courses", 0)),
            Item(<<"attribute">>, Leaf("list_attribute", 0)),
            Item(<<"finals">>, Leaf("list_finals", 0)),
            Item(<<"timeline">>, Leaf("list_timeline", 0)) >>)),
        Item(<<"compile">>, Dict(<<
            Item(<<"cron">>, Leaf("compile_cron_jobs", 0)),
            Item(<<"notes">>, Leaf("compile_notes", 0)) >>)),
        Item(<<"config">>, Leaf("open_in_ranger", 1)),
        Item(<<"check">>, Dict(<<
            Item(<<"all">>, Leaf("check_all_websites", 0)),
            Item(<<"course">>, Leaf("check_course_website", 0)) >>)),
        Item(<<"open">>, Dict(<<
            Item(<<"folder", "course">>, Leaf("open_course", 1)),
            Item(<<"website">>, Leaf("open_course", 1)),
            Item(<<"notes">>, Leaf("open_course", 1)),
            Item(<<"script">>, Leaf("open_in_vim", 1)) >>)) >>)

\* the two sibling commands of the documented dispatcher example, walked by the
\* same loop
ExampleTree ==
    Dict(<<
        Item(<<"list">>, Leaf("list_finals", 0)),
        Item(<<"load">>, Leaf("check_all_websites", 0)) >>)

\* the keys of a dict, in iteration order
Keys(tree) == [i \in DOMAIN tree.items |-> tree.items[i].key]

\* tree[key]
Lookup(tree, key) ==
    tree.items[CHOOSE i \in DOMAIN tree.items : tree.items[i].key = key].val

\* the positional parameters of each action: [required, total]
Params(fn) ==
    CASE fn = "list_courses" -> [required |-> 0, total |-> 1]
      [] fn = "list_attribute" -> [required |-> 1, total |-> 2]
      [] fn = "list_finals" -> [required |-> 0, total |-> 0]
      [] fn = "list_timeline" -> [required |-> 0, total |-> 0]
      [] fn = "compile_cron_jobs" -> [required |-> 0, total |-> 0]
      [] fn = "compile_notes" -> [required |-> 0, total |-> 0]
      [] fn = "open_in_ranger" -> [required |-> 1, total |-> 1]
      [] fn = "open_in_vim" -> [required |-> 1, total |-> 1]
      [] fn = "check_all_websites" -> [required |-> 0, total |-> 0]
      [] fn = "check_course_website" -> [required |-> 0, total |-> 1]
      [] fn = "open_course" -> [required |-> 1, total |-> 2]

\* whether calling leaf's callable with n further positional arguments binds
AcceptsArguments(leaf, n) ==
    /\ Params(leaf.fn).required <= leaf.bound + n
    /\ leaf.bound + n <= Params(leaf.fn).total

\* how the body of an action can end once its arguments were bound: it returns,
\* calls sys.exit, raises TypeError (sorted() over a start time that is None,
\* date.replace(tzinfo=...) in list_finals) or raises another exception
\* (ValueError of WD_EN.index, AttributeError, OSError of a missing program)
BodyOutcomes(fn) ==
    IF fn \in {"open_in_ranger", "open_in_vim"}
    THEN {"return", "Exception"}
    ELSE {"return", "SystemExit", "TypeError", "Exception"}

-----------------------------------------------------------------------------
(* The descent down the decision tree *)

\* a plausible slip: the length of the matching alias instead of the token's
Score_AliasLength(token, d) ==
    Max({IF StartsWith(d[i], token) THEN Len(d[i]) ELSE 0 : i \in DOMAIN d})

\* the score of one alias group d for the popped token
Score(token, d) ==
    Max({IF StartsWith(d[i], token) THEN Len(token) ELSE 0 : i \in DOMAIN d})

\* (score, d) < (score, d), Python's tuple comparison
DecisionLess(x, y) ==
    \/ x.score < y.score
    \/ x.score = y.score /\ KeyLess(x.d, y.d)

RECURSIVE InsertDecision(_, _)
InsertDecision(x, s) ==
    IF s = <<>> THEN <<x>>
    ELSE IF DecisionLess(x, Head(s)) THEN <<x>> \o s
    ELSE <<Head(s)>> \o InsertDecision(x, Tail(s))

RECURSIVE SortDecisions(_)
SortDecisions(s) ==
    IF s = <<>> THEN <<>> ELSE InsertDecision(Head(s), SortDecisions(Tail(s)))

\* sorted((max(...), d) for d in decision_tree)
Decisions(tree, token) ==
    SortDecisions([i \in DOMAIN tree.items |->
                      [score |-> Score(token, tree.items[i].key),
                       d |-> tree.items[i].key]])

\* a plausible slip: the sub-optimal decisions are not filtered out
Optimal_Unfiltered(decisions) == decisions

\* list(filter(lambda x: x[0] == decisions[-1][0], decisions))
Optimal(decisions) ==
    SelectSeq(decisions, LAMBDA x : x.score = decisions[Len(decisions)].score)

Message(kind, token, groups) == [kind |-> kind, token |-> token, groups |-> groups]

\* the tokens a command line is made of: prefixes of aliases of one child and of
\* several children, a token longer than an alias, a token matching nothing and
\* the empty token
Tokens == {"", "l", "li", "c", "co", "com", "con", "o", "n", "x", "listx"}

RECURSIVE SeqsUpTo(_, _)
SeqsUpTo(S, n) ==
    IF n = 0 THEN {<<>>}
    ELSE LET shorter == SeqsUpTo(S, n - 1)
         IN  shorter \cup {Append(s, x) : s \in shorter, x \in S}

InitWorld0 ==
    /\ short = FALSE
    /\ crontab = ""
    /\ website = ""
    /\ cache = "None"
    /\ frame = [pc |-> "idle"]

InitSchedule0 ==
    /\ files = <<>>
    /\ today = [weekday |-> 0, hour |-> 0, minute |-> 0]
    /\ query = [kind |-> "none"]
    /\ answer = [kind |-> "pending"]

InitDispatch ==
    /\ argv \in SeqsUpTo(Tokens, MaxArgs)
    /\ arguments = argv
    /\ decision_tree \in {ProgramTree, ExampleTree}
    /\ parsed_arguments = <<>>
    /\ argument = "None"
    /\ pc = "list_help"
    /\ output = <<>>
    /\ status = "running"
    /\ calls = <<>>
    /\ InitSchedule0
    /\ InitWorld0

\* if no arguments are specified, list help and exit
ListHelp ==
    /\ pc = "list_help"
    /\ IF Len(arguments) = 0
       THEN /\ output' = Append(output, Message("help", "None", Keys(decision_tree)))
            /\ status' = "exit0"
            /\ pc' = "done"
       ELSE /\ pc' = "descend"
            /\ UNCHANGED <<output, status>>
    /\ UNCHANGED <<arguments, decision_tree, parsed_arguments, argument, calls, argv>>
    /\ UNCHANGED scheduleVars
    /\ UNCHANGED worldVars

\* one iteration of the while loop
Descend ==
    /\ pc = "descend"
    /\ Len(arguments) # 0
    /\ decision_tree.kind = "dict"
    /\ LET token == Head(arguments)
           decisions == Decisions(decision_tree, token)
           optimal == Optimal(decisions)
       IN  /\ argument' = token
           /\ arguments' = Tail(arguments)
           /\ IF decisions[Len(decisions)].score = 0
              THEN /\ output' = Append(output,
                          Message("unmatched", token, Keys(decision_tree)))
                   /\ status' = "exit1"
                   /\ pc' = "done"
                   /\ UNCHANGED <<decision_tree, parsed_arguments>>
              ELSE IF Len(optimal) > 1
              THEN /\ output' = Append(output,
                          Message("ambiguous", token,
                                  [i \in DOMAIN optimal |-> optimal[i].d]))
                   /\ status' = "exit1"
                   /\ pc' = "done"
                   /\ UNCHANGED <<decision_tree, parsed_arguments>>
              ELSE /\ parsed_arguments' = Append(parsed_arguments, optimal[1].d)
                   /\ decision_tree' = Lookup(decision_tree, optimal[1].d)
                   /\ UNCHANGED <<output, status, pc>>
    /\ UNCHANGED <<calls, argv>>
    /\ UNCHANGED scheduleVars
    /\ UNCHANGED worldVars

\* the tokens ran out at a dict: exit with the decisions remaining
DecisionsRemaining ==
    /\ pc = "descend"
    /\ Len(arguments) = 0
    /\ decision_tree.kind = "dict"
    /\ output' = Append(output, Message("incomplete", "None", Keys(decision_tree)))
    /\ status' = "exit1"
    /\ pc' = "done"
    /\ UNCHANGED <<arguments, decision_tree, parsed_arguments, argument, calls, argv>>
    /\ UNCHANGED scheduleVars
    /\ UNCHANGED worldVars

Call(leaf, args, result) ==
    [fn |-> leaf.fn, bound |-> leaf.bound, args |-> args, result |-> result]

\* what the try/except around the call makes of the way the call ended
Caught(result) == result \in {"rejected", "TypeError"}

\* a plausible slip: the whole command line is handed on, not what is left of it
ActionArguments_WholeCommandLine == argv

\* the positional arguments of the call: *arguments
ActionArguments == arguments

\* decision_tree[0](*arguments) inside try / except TypeError
Invoke ==
    /\ pc = "descend"
    /\ decision_tree.kind = "leaf"
    /\ \E result \in IF AcceptsArguments(decision_tree, Len(ActionArguments))
                     THEN BodyOutcomes(decision_tree.fn)
                     ELSE {"rejected"} :
          /\ calls' = Append(calls, Call(decision_tree, ActionArguments, result))
          /\ IF Caught(result)
             THEN /\ output' = Append(output,
                         Message("invalid_arguments", "None", parsed_arguments))
                  /\ status' = "exit0"
             ELSE /\ output' = output
                  /\ status' = CASE result = "return" -> "exit0"
                                 [] result = "SystemExit" -> "sys_exit"
                                 [] result = "Exception" -> "traceback"
    /\ pc' = "done"
    /\ UNCHANGED <<arguments, decision_tree, parsed_arguments, argument, argv>>
    /\ UNCHANGED scheduleVars
    /\ UNCHANGED worldVars

NextDispatch ==
    \/ ListHelp
    \/ Descend
    \/ DecisionsRemaining
    \/ Invoke

SpecDispatch == InitDispatch /\ [][NextDispatch]_vars

-----------------------------------------------------------------------------
(* Properties of the dispatcher *)

\* the alias groups of the children of a dict
KeySet(tree) == {tree.items[i].key : i \in DOMAIN tree.items}

\* a step that runs one iteration of the descent loop
LoopStep ==
    /\ pc = "descend"
    /\ Len(arguments) # 0
    /\ decision_tree.kind = "dict"

\* the step descends into the child under alias group k
DescendsInto(k) ==
    /\ parsed_arguments' = Append(parsed_arguments, k)
    /\ decision_tree' = Lookup(decision_tree, k)
    /\ status' = "running"

\* the step ends the run with message m
FailsWith(m) ==
    /\ output' = Append(output, m)
    /\ status' = "exit1"
    /\ pc' = "done"

\* some alias of group d starts with the token
Matches(token, d) == \E i \in DOMAIN d : StartsWith(d[i], token)

\* the score as the specification words it: the length of the longest alias
\* that starts with the token
AliasLengthScore(token, d) ==
    Max({0} \cup {Len(d[i]) : i \in {j \in DOMAIN d : StartsWith(d[j], token)}})

\* the score by the length of the token
TokenLengthScore(token, d) == IF Matches(token, d) THEN Len(token) ELSE 0

\* child k alone attains the maximal score S, and that score is positive
AloneAttainsMax(S(_, _), tree, token, k) ==
    /\ S(token, k) > 0
    /\ \A j \in KeySet(tree) \ {k} : S(token, j) < S(token, k)

\* C1 as stated: the score of a child is the length of its longest alias that
\* starts with the token, and the dispatcher descends into a child exactly when
\* that child alone attains the maximal score and the score is positive.
C1_DescendsByAliasLength ==
    [][LoopStep =>
         \A k \in KeySet(decision_tree) :
            DescendsInto(k) <=>
               AloneAttainsMax(AliasLengthScore, decision_tree, Head(arguments), k)]_vars

\* C1 as amended: the score of a child is the length of the token when one of its
\* aliases starts with the token (0 otherwise), and the dispatcher descends into
\* a child exactly when that child alone attains the maximal score and the score
\* is positive, i.e. exactly when the token is not empty and the child is the
\* only one with an alias that starts with it.
C1_DescendsByTokenLength ==
    [][LoopStep =>
         \A k \in KeySet(decision_tree) :
            /\ DescendsInto(k) <=>
                  AloneAttainsMax(TokenLengthScore, decision_tree, Head(arguments), k)
            /\ DescendsInto(k) <=>
                  /\ Head(arguments) # ""
                  /\ \A j \in KeySet(decision_tree) :
                        Matches(Head(arguments), j) <=> j = k]_vars

\* C1's case: "c" was resolved below "open", where it is a prefix of the second
\* alias of one child only
C1_Witness ==
    /\ parsed_arguments = << <<"open">>, <<"folder", "course">> >>
    /\ argument = "c"

\* C2's example and rules but for the token of a failing step
C2_Rules ==
    LET token == Head(arguments)
        matching == {k \in KeySet(decision_tree) : Matches(token, k)}
    IN  /\ (decision_tree = ExampleTree /\ token = "l") =>
               \E groups \in {<< <<"list">>, <<"load">> >>, << <<"load">>, <<"list">> >>} :
                  FailsWith(Message("ambiguous", "l", groups))
        /\ (decision_tree = ExampleTree /\ token = "li") => DescendsInto(<<"list">>)
        /\ (token # "" /\ Cardinality(matching) = 1) =>
               \A k \in matching : DescendsInto(k)
        /\ matching = {} => FailsWith(Message("unmatched", token, Keys(decision_tree)))

\* C2 as stated: among the siblings {"list"} and {"load"} the token "l" is
\* ambiguous and "li" descends into {"list"}; a non-empty token that is a prefix
\* of an alias of exactly one child descends into it, a token that is a prefix of
\* no alias fails as unmatched, and a failing step consumes no token.
C2_NoTokenConsumedOnFailure ==
    [][LoopStep =>
         /\ C2_Rules
         /\ status' # "running" => arguments' = arguments]_vars

\* C2 as amended: the same example and rules; a failing step has popped the
\* failing token off the argument list (the message names it) but descends
\* nowhere: the current node and the path parsed so far stay as they were.
C2_FailingStepDescendsNowhere ==
    [][LoopStep =>
         /\ C2_Rules
         /\ status' # "running" =>
               /\ arguments' = Tail(arguments)
               /\ argument' = Head(arguments)
               /\ UNCHANGED <<decision_tree, parsed_arguments, calls>>]_vars

\* C2's case: "l" failed as ambiguous between {"list"} and {"load"}
C2_Witness ==
    /\ argv # <<>>
    /\ argv[1] = "l"
    /\ status = "exit1"
    /\ output = << Message("ambiguous", "l", << <<"list">>, <<"load">> >>) >>

\* C3: no token is consumed once the current node is a leaf, the leaf's action is
\* called exactly once with exactly the tokens not consumed, in their order, when
\* the tokens run out at an internal node no action is called and the run fails
\* with the incomplete-command message listing that node's choices, and nothing
\* but the action of a leaf is ever called.
C3_LeafInvokedOnceWithRest ==
    /\ [](/\ Len(calls) <= 1
          /\ calls # <<>> =>
                /\ decision_tree.kind = "leaf"
                /\ calls[1].fn = decision_tree.fn
                /\ calls[1].args = SubSeq(argv, Len(parsed_arguments) + 1, Len(argv))
                /\ pc = "done"
          /\ (pc = "done" /\ decision_tree.kind = "leaf") => Len(calls) = 1
          /\ decision_tree.kind = "dict" => calls = <<>>)
    /\ [][/\ decision_tree.kind = "leaf" =>
                /\ arguments' = arguments
                /\ decision_tree' = decision_tree
                /\ parsed_arguments' = parsed_arguments
          /\ (pc = "descend" /\ decision_tree.kind = "dict" /\ arguments = <<>>) =>
                /\ calls' = calls
                /\ FailsWith(Message("incomplete", "None", Keys(decision_tree)))]_vars

\* C3's case: "open" "c" resolved to a leaf and one further token was left, which
\* the action was called with
C3_Witness ==
    /\ argv = <<"o", "c", "x">>
    /\ Len(calls) = 1
    /\ calls[1].fn = "open_course"
    /\ calls[1].args = <<"x">>

\* C3's other case: the tokens ran out below "compile"
C3_WitnessIncomplete ==
    /\ argv = <<"com">>
    /\ status = "exit1"
    /\ output = << Message("incomplete", "None", << <<"cron">>, <<"notes">> >>) >>

\* C4 as stated: the argument-mismatch message, naming the resolved command
\* path, is printed when the action rejects the arguments it is called with, the
\* fault is not propagated, and the message is printed in that case only, never
\* for a fault raised inside an action that accepted its arguments.
C4_MismatchMessageOnlyOnRejection ==
    LET mismatch == Message("invalid_arguments", "None", parsed_arguments)
    IN  /\ (calls # <<>> /\ calls[1].result = "rejected") =>
               /\ output = <<mismatch>>
               /\ status = "exit0"
        /\ (\E i \in DOMAIN output : output[i].kind = "invalid_arguments") =>
               /\ calls # <<>>
               /\ calls[1].result = "rejected"

-----------------------------------------------------------------------------
(* Courses *)

\* an absent argument
None == "None"

\* Course.time of a course without a time section
NoTime == [day |-> "None", start |-> -1, end |-> -1]

Time(day, start, end) == [day |-> day, start |-> start, end |-> end]

Course(name, abbreviation, type, time) ==
    [name |-> name, abbreviation |-> abbreviation, type |-> type, time |-> time]

\* min_course before the loop found a course
NoCourse == Course("None", "None", "None", NoTime)

\* c.time is not None
HasTime(c) == c.time # NoTime

\* weekday constants
WD_EN == <<"monday", "tuesday", "wednesday", "thursday", "friday", "saturday", "sundnay">>

MID == 1440

MIW == 10080

\* the lower-case letter of each upper-case letter
LowerOf == [c \in UpperLetters |-> Char(LOWER, CHOOSE i \in 1..26 : Char(UPPER, i) = c)]

LowerChar(c) == IF c \in UpperLetters THEN LowerOf[c] ELSE c

\* str.lower
RECURSIVE Lower(_)
Lower(s) ==
    IF Len(s) = 0 THEN ""
    ELSE LowerChar(Char(s, 1)) \o Lower(SubSeq(s, 2, Len(s)))

\* unidecode: an accented letter is written as the letter followed by the mark
\* "'" (its decomposed form), which unidecode drops
RECURSIVE Unidecode(_)
Unidecode(s) ==
    IF Len(s) = 0 THEN ""
    ELSE (IF Char(s, 1) = "'" THEN "" ELSE Char(s, 1))
             \o Unidecode(SubSeq(s, 2, Len(s)))

\* str.split("-")
RECURSIVE Split(_)
Split(s) ==
    IF \E i \in 1..Len(s) : Char(s, i) = "-"
    THEN LET i == CHOOSE j \in 1..Len(s) :
                     /\ Char(s, j) = "-"
                     /\ \A k \in 1..(j - 1) : Char(s, k) # "-"
         IN  <<SubSeq(s, 1, i - 1)>> \o Split(SubSeq(s, i + 1, Len(s)))
    ELSE <<s>>

\* WD_EN.index(day.lower()) raises ValueError
WeekdayRaises(day) == \A i \in DOMAIN WD_EN : WD_EN[i] # Lower(day)

\* WD_EN.index(day.lower()), where it does not raise
WeekdayIndex(day) == (CHOOSE i \in DOMAIN WD_EN : WD_EN[i] = Lower(day)) - 1

\* Course.weekday
Weekday(c) == WeekdayIndex(c.time.day)

\* Course.is_ongoing, with datetime.today() = now
IsOngoing(c, now) ==
    /\ now.weekday = Weekday(c)
    /\ c.time.start <= now.hour * 60 + now.minute
    /\ now.hour * 60 + now.minute <= c.time.end

-----------------------------------------------------------------------------
(* The schedule queries *)

ValueError == [kind |-> "ValueError"]

\* a plausible slip: courses without a time are keyed after the last weekday
SortKey_UnscheduledLast(c) ==
    IF ~HasTime(c) THEN <<7, 0>> ELSE <<Weekday(c), c.time.start>>

\* the key get_sorted_courses sorts by
SortKey(c) == IF ~HasTime(c) THEN <<0, 0>> ELSE <<Weekday(c), c.time.start>>

\* (a, b) < (c, d)
PairLess(x, y) == x[1] < y[1] \/ (x[1] = y[1] /\ x[2] < y[2])

\* sorted() is stable: x goes behind every course whose key is not greater
RECURSIVE InsertCourse(_, _)
InsertCourse(x, s) ==
    IF s = <<>> THEN <<x>>
    ELSE IF PairLess(SortKey(x), SortKey(Head(s))) THEN <<x>> \o s
    ELSE <<Head(s)>> \o InsertCourse(x, Tail(s))

RECURSIVE SortCourses(_)
SortCourses(s) ==
    IF s = <<>> THEN <<>>
    ELSE InsertCourse(s[Len(s)], SortCourses(SubSeq(s, 1, Len(s) - 1)))

\* get_sorted_courses over the definitions fs, in discovery order
GetSortedCourses(fs, include_unscheduled) ==
    LET courses == SelectSeq(fs, LAMBDA c : HasTime(c) \/ include_unscheduled)
    IN  IF \E i \in DOMAIN courses :
              HasTime(courses[i]) /\ WeekdayRaises(courses[i].time.day)
        THEN ValueError
        ELSE [kind |-> "list", courses |-> SortCourses(courses)]

\* get_ongoing_course
GetOngoingCourse(fs, now) ==
    LET sorted == GetSortedCourses(fs, FALSE)
    IN  IF sorted.kind # "list" THEN sorted
        ELSE IF \E i \in DOMAIN sorted.courses : IsOngoing(sorted.courses[i], now)
        THEN [kind |-> "course",
              course |-> sorted.courses[
                  CHOOSE i \in DOMAIN sorted.courses :
                     /\ IsOngoing(sorted.courses[i], now)
                     /\ \A j \in 1..(i - 1) : ~IsOngoing(sorted.courses[j], now)]]
        ELSE [kind |-> "None"]

\* now's position in the week
CurrentWeekTime(now) == now.weekday * MID + now.hour * 60 + now.minute

\* the minutes from now to the next start of c
TimeToCourse(c, now) == ((c.time.start + Weekday(c) * MID) - CurrentWeekTime(now)) % MIW

\* the loop over the sorted courses from index i on; min_time = MIW stands for
\* float("+inf"), which every time_to_course is below as well
RECURSIVE NextLoop(_, _, _, _, _)
NextLoop(courses, i, now, min_time, min_course) ==
    IF i > Len(courses) THEN min_course
    ELSE IF TimeToCourse(courses[i], now) < min_time
    THEN NextLoop(courses, i + 1, now, TimeToCourse(courses[i], now), courses[i])
    ELSE NextLoop(courses, i + 1, now, min_time, min_course)

\* the special case for 'next'
NextCourse(fs, now) ==
    LET sorted == GetSortedCourses(fs, FALSE)
    IN  IF sorted.kind # "list" THEN sorted
        ELSE [kind |-> "list",
              courses |-> <<NextLoop(sorted.courses, 1, now, MIW, NoCourse)>>]

\* a plausible slip: the type part is compared with the whole type name
TypeMatches_WholeType(type, c) == type = None \/ type = Lower(c.type)

\* type in {None, course.type[0]}
TypeMatches(type, c) == type = None \/ type = Char(c.type, 1)

\* a plausible slip: the empty token is taken for no arg as well
IsAbsent_OrEmpty(arg) == arg \in {None, ""}

\* argument is None
IsAbsent(arg) == arg = None

\* the courses matching an identifier abbreviation[-type] or name[-type]
MatchIdentifier(arg, fs) ==
    LET parts == Split(Lower(arg))
        abbr == parts[1]
        type == IF Len(parts) = 1 THEN None ELSE parts[2]
        sorted == GetSortedCourses(fs, FALSE)
    IN  IF sorted.kind # "list" THEN sorted
        ELSE LET abbr_courses ==
                     SelectSeq(sorted.courses,
                               LAMBDA c : /\ abbr = Lower(c.abbreviation)
                                          /\ TypeMatches(type, c))
                 name_courses ==
                     SelectSeq(sorted.courses,
                               LAMBDA c : /\ StartsWith(Unidecode(Lower(c.name)),
                                                        Unidecode(Lower(abbr)))
                                          /\ TypeMatches(type, c))
             IN  [kind |-> "list",
                  courses |-> IF Len(abbr_courses) # 0 THEN abbr_courses
                              ELSE name_courses]

\* get_course_from_argumentument
GetCourseFromArgument(arg, fs, now) ==
    IF IsAbsent(arg)
    THEN LET ongoing == GetOngoingCourse(fs, now)
         IN  IF ongoing.kind = "course"
             THEN [kind |-> "list", courses |-> <<ongoing.course>>]
             ELSE IF ongoing.kind = "None" THEN NextCourse(fs, now)
             ELSE ongoing
    ELSE IF arg \in {"n", "next"} THEN NextCourse(fs, now)
    ELSE MatchIdentifier(arg, fs)

-----------------------------------------------------------------------------
(* Runs of the schedule queries *)

\* the course definitions a courses folder is made of: two courses at the same
\* weekday and start, overlapping courses, a course on each end of the week, a
\* course at Monday 00:00 and a course without a time section
LA_lecture == Course("Linear Algebra", "LA", "lecture", Time("monday", 540, 630))

LA_practical == Course("Linear Algebra", "LA", "practical", Time("Monday", 540, 630))

UV_lecture == Course("U'vod", "UV", "lecture", Time("monday", 571, 660))

UV_practical == Course("U'vod", "UV", "practical", Time("tuesday", 0, 90))

PR_lecture == Course("Programming", "PR", "lecture", Time("sunday", 540, 630))

PR_practical == Course("Programming", "PR", "practical", Time("monday", 0, 60))

SE_seminar == Course("Seminar", "SE", "seminar", NoTime)

Pool == {LA_lecture, LA_practical, UV_lecture, UV_practical, PR_lecture,
         PR_practical, SE_seminar}

\* the lists of at most n distinct elements of S
RECURSIVE DistinctSeqs(_, _)
DistinctSeqs(S, n) ==
    IF n = 0 THEN {<<>>}
    ELSE LET shorter == DistinctSeqs(S, n - 1)
         IN  shorter \cup
             UNION {{Append(s, x) : x \in S \ {s[i] : i \in DOMAIN s}} : s \in shorter}

\* the day names Course.weekday is asked about
DayNames == {"monday", "tuesday", "wednesday", "thursday", "friday", "saturday",
             "sunday", "Monday", "SUNDAY", "sundnay", "funday", ""}

Now(weekday, hour, minute) == [weekday |-> weekday, hour |-> hour, minute |-> minute]

\* the values of datetime.today()
Nows == {Now(0, 9, 0), Now(0, 9, 1), Now(0, 9, 30), Now(0, 10, 30), Now(0, 10, 31),
         Now(1, 0, 0), Now(6, 9, 30), Now(6, 23, 59)}

\* the arguments get_course_from_argument is called with
Arguments == {None, "", "n", "next", "la", "LA-p", "uv-lecture", "uvod", "x",
              "LA-lecture", "LA-l", "SE-seminar", "SE-s"}

\* the arguments whose documented result depends on the time of the call
ClockArguments == {None, "", "n", "next"}

InitSchedule ==
    /\ files \in DistinctSeqs(Pool, MaxCourses)
    /\ today = Now(0, 0, 0)
    /\ query = [kind |-> "none"]
    /\ answer = [kind |-> "pending"]
    /\ argv = <<>>
    /\ arguments = <<>>
    /\ decision_tree = ProgramTree
    /\ parsed_arguments = <<>>
    /\ argument = None
    /\ pc = "query"
    /\ output = <<>>
    /\ status = "running"
    /\ calls = <<>>
    /\ InitWorld0

CallGetSortedCourses ==
    /\ answer.kind = "pending"
    /\ \E include_unscheduled \in BOOLEAN :
          /\ query' = [kind |-> "get_sorted_courses",
                       include_unscheduled |-> include_unscheduled]
          /\ answer' = GetSortedCourses(files, include_unscheduled)
    /\ UNCHANGED <<files, today>>
    /\ UNCHANGED dispatchVars
    /\ UNCHANGED worldVars

CallWeekday ==
    /\ answer.kind = "pending"
    /\ \E day \in DayNames :
          /\ query' = [kind |-> "weekday", day |-> day]
          /\ answer' = IF WeekdayRaises(day) THEN ValueError
                       ELSE [kind |-> "int", value |-> WeekdayIndex(day)]
    /\ UNCHANGED <<files, today>>
    /\ UNCHANGED dispatchVars
    /\ UNCHANGED worldVars

CallGetOngoingCourse ==
    /\ answer.kind = "pending"
    /\ \E now \in Nows :
          /\ today' = now
          /\ query' = [kind |-> "get_ongoing_course"]
          /\ answer' = GetOngoingCourse(files, now)
    /\ UNCHANGED files
    /\ UNCHANGED dispatchVars
    /\ UNCHANGED worldVars

CallGetCourseFromArgument ==
    /\ answer.kind = "pending"
    /\ \E arg \in Arguments :
       \E now \in IF arg \in ClockArguments THEN Nows ELSE {today} :
          /\ today' = now
          /\ query' = [kind |-> "get_course_from_argument", argument |-> arg]
          /\ answer' = GetCourseFromArgument(arg, files, now)
    /\ UNCHANGED files
    /\ UNCHANGED dispatchVars
    /\ UNCHANGED worldVars

NextSchedule ==
    \/ CallGetSortedCourses
    \/ CallWeekday
    \/ CallGetOngoingCourse
    \/ CallGetCourseFromArgument

SpecSchedule == InitSchedule /\ [][NextSchedule]_vars

-----------------------------------------------------------------------------
(* Properties of the schedule queries *)

\* the seven canonical weekday names, Monday first
CanonicalDays ==
    <<"monday", "tuesday", "wednesday", "thursday", "friday", "saturday", "sunday">>

IsCanonical(day) == \E i \in DOMAIN CanonicalDays : CanonicalDays[i] = Lower(day)

\* the weekday index of a canonical name: 0 = Monday .. 6 = Sunday
CanonicalIndex(day) ==
    (CHOOSE i \in DOMAIN CanonicalDays : CanonicalDays[i] = Lower(day)) - 1

\* a valid course definition: no time, or a canonical day and start < end
ValidDefinition(c) ==
    HasTime(c) => (IsCanonical(c.time.day) /\ c.time.start < c.time.end)

AllValid == \A i \in DOMAIN files : ValidDefinition(files[i])

\* the (weekday index, start minute) of a scheduled course
ScheduleKey(c) == <<CanonicalIndex(c.time.day), c.time.start>>

\* the place of a course among the discovered definitions
Discovered(c) == CHOOSE i \in DOMAIN files : files[i] = c

ScheduledFiles == {files[i] : i \in {j \in DOMAIN files : HasTime(files[j])}}

\* the courses of a returned list are those of S, each once
IsPermutationOf(courses, S) ==
    /\ {courses[i] : i \in DOMAIN courses} = S
    /\ Len(courses) = Cardinality(S)

\* sorted non-decreasing by (weekday index, start), equal keys in discovery order
IsStablySorted(courses) ==
    \A i, j \in DOMAIN courses :
       i < j =>
          /\ ~PairLess(ScheduleKey(courses[j]), ScheduleKey(courses[i]))
          /\ ScheduleKey(courses[i]) = ScheduleKey(courses[j]) =>
                Discovered(courses[i]) < Discovered(courses[j])

\* C5: for every set of valid course definitions get_sorted_courses(False)
\* returns a list that is sorted non-decreasing by (weekday index, start minute),
\* holds exactly the discovered courses with a time section, each once, and
\* keeps courses of equal (weekday, start) in discovery order.
C5_SortedPermutationStable ==
    (/\ query.kind = "get_sorted_courses"
     /\ ~query.include_unscheduled
     /\ AllValid) =>
        /\ answer.kind = "list"
        /\ IsPermutationOf(answer.courses, ScheduledFiles)
        /\ IsStablySorted(answer.courses)

\* what is left of C5 beside the weekday fault: every list that is returned is
\* such a stably sorted permutation
C5_SortedWhenReturned ==
    (/\ query.kind = "get_sorted_courses"
     /\ ~query.include_unscheduled
     /\ answer.kind = "list") =>
        /\ IsPermutationOf(answer.courses, ScheduledFiles)
        /\ IsStablySorted(answer.courses)

\* C6 as stated: with the unscheduled courses included, every course without a
\* time comes after every scheduled course in the returned schedule.
C6_UnscheduledAfterScheduled ==
    (/\ query.kind = "get_sorted_courses"
     /\ query.include_unscheduled
     /\ answer.kind = "list") =>
        \A i, j \in DOMAIN answer.courses :
           (~HasTime(answer.courses[i]) /\ HasTime(answer.courses[j])) => j < i

\* C6 as amended: with the unscheduled courses included, a course without a time
\* is sorted as if it started on Monday at minute 0: it comes before every
\* scheduled course that starts later than that, and keeps the discovery order
\* relative to the scheduled courses that start on Monday at minute 0.
C6_UnscheduledSortAsMondayMidnight ==
    (/\ query.kind = "get_sorted_courses"
     /\ query.include_unscheduled
     /\ answer.kind = "list") =>
        /\ IsPermutationOf(answer.courses, {files[i] : i \in DOMAIN files})
        /\ \A i, j \in DOMAIN answer.courses :
              (~HasTime(answer.courses[i]) /\ HasTime(answer.courses[j])) =>
                 IF ScheduleKey(answer.courses[j]) = <<0, 0>>
                 THEN i < j <=> Discovered(answer.courses[i]) < Discovered(answer.courses[j])
                 ELSE i < j

\* C6's case: a course without a time was discovered last and is returned
\* between the Monday 00:00 course and the Monday 09:00 course
C6_Witness ==
    /\ query.kind = "get_sorted_courses"
    /\ query.include_unscheduled
    /\ files = <<LA_lecture, PR_practical, SE_seminar>>
    /\ answer = [kind |-> "list",
                 courses |-> <<PR_practical, SE_seminar, LA_lecture>>]

\* C7: Course.weekday maps each of the seven canonical weekday names, in any
\* letter case, to its index 0..6 (0 = Monday, 6 = Sunday), and fails with the
\* invalid-identifier error only for names that are none of the seven.
C7_WeekdayOfCanonicalNames ==
    query.kind = "weekday" =>
        /\ IsCanonical(query.day) =>
              answer = [kind |-> "int", value |-> CanonicalIndex(query.day)]
        /\ answer = ValueError => ~IsCanonical(query.day)

\* today falls on c's weekday, within [start, end]
OngoingAt(c, now) ==
    /\ now.weekday = CanonicalIndex(c.time.day)
    /\ c.time.start <= now.hour * 60 + now.minute
    /\ now.hour * 60 + now.minute <= c.time.end

\* C8: get_ongoing_course returns a course only if today falls on its weekday
\* within [start, end], returns None exactly when no scheduled course satisfies
\* that, and the course it returns is the only one that satisfies it.
C8_OngoingCourseIsUnique ==
    (query.kind = "get_ongoing_course" /\ AllValid) =>
        LET ongoing == {c \in ScheduledFiles : OngoingAt(c, today)}
        IN  /\ answer.kind = "None" <=> ongoing = {}
            /\ answer.kind = "course" => ongoing = {answer.course}

\* what is left of C8 beside the weekday fault and overlapping courses: a
\* returned course is the first in schedule order that is ongoing, and None is
\* returned only when no course is
C8_FirstOngoingWhenReturned ==
    (query.kind = "get_ongoing_course" /\ answer.kind \in {"course", "None"}) =>
        LET ongoing == {c \in ScheduledFiles : OngoingAt(c, today)}
        IN  /\ answer.kind = "None" <=> ongoing = {}
            /\ answer.kind = "course" =>
                  /\ answer.course \in ongoing
                  /\ \A c \in ongoing \ {answer.course} :
                        \/ PairLess(ScheduleKey(answer.course), ScheduleKey(c))
                        \/ /\ ScheduleKey(answer.course) = ScheduleKey(c)
                           /\ Discovered(answer.course) < Discovered(c)

\* the forward distance in minutes from now to the start of c, modulo one week
ForwardDistance(c, now) ==
    ((CanonicalIndex(c.time.day) * 1440 + c.time.start)
        - (now.weekday * 1440 + now.hour * 60 + now.minute)) % 10080

\* c comes before d in schedule order
Before(c, d) ==
    \/ PairLess(ScheduleKey(c), ScheduleKey(d))
    \/ ScheduleKey(c) = ScheduleKey(d) /\ Discovered(c) < Discovered(d)

\* the course C9 describes: of minimal forward distance, the first in schedule
\* order among those
IsNextCourse(c) ==
    /\ c \in ScheduledFiles
    /\ ForwardDistance(c, today) \in 0..10079
    /\ \A d \in ScheduledFiles \ {c} :
          \/ ForwardDistance(c, today) < ForwardDistance(d, today)
          \/ ForwardDistance(c, today) = ForwardDistance(d, today) /\ Before(c, d)

\* C9: for every now and every non-empty schedule get_course_from_argument("next")
\* returns the scheduled course of minimal forward distance, a distance in
\* 0..10079, and of the courses tying at the minimum the first in schedule order.
C9_NextIsNearestForward ==
    (/\ query.kind = "get_course_from_argument"
     /\ query.argument = "next"
     /\ ScheduledFiles # {}
     /\ AllValid) =>
        /\ answer.kind = "list"
        /\ Len(answer.courses) = 1
        /\ IsNextCourse(answer.courses[1])

\* what is left of C9 beside the weekday fault: every course that is returned is
\* the nearest one
C9_NearestWhenReturned ==
    (/\ query.kind = "get_course_from_argument"
     /\ query.argument \in {"n", "next"}
     /\ ScheduledFiles # {}
     /\ answer.kind = "list") =>
        /\ Len(answer.courses) = 1
        /\ IsNextCourse(answer.courses[1])

\* the ongoing course or else the result of the next-course query
OngoingOrNext ==
    LET ongoing == GetOngoingCourse(files, today)
    IN  IF ongoing.kind = "course"
        THEN [kind |-> "list", courses |-> <<ongoing.course>>]
        ELSE IF ongoing.kind = "None" THEN NextCourse(files, today)
        ELSE ongoing

\* C10 as stated: with the empty token or with no token get_course_from_argument
\* returns the ongoing course or, if there is none, the result of the next-course
\* query; with "n" or "next" it returns the result of the next-course query.
C10_EmptyOrAbsentIsOngoingOrNext ==
    query.kind = "get_course_from_argument" =>
        /\ query.argument \in {None, ""} => answer = OngoingOrNext
        /\ query.argument \in {"n", "next"} => answer = NextCourse(files, today)

\* every scheduled course, unless some have an empty abbreviation: then those
EmptyIdentifierMatch ==
    LET sorted == GetSortedCourses(files, FALSE)
    IN  IF sorted.kind # "list" THEN sorted
        ELSE LET unnamed == SelectSeq(sorted.courses, LAMBDA c : c.abbreviation = "")
             IN  [kind |-> "list",
                  courses |-> IF unnamed # <<>> THEN unnamed ELSE sorted.courses]

\* C10 as amended: with no token (None) get_course_from_argument returns the
\* ongoing course or, if there is none, the result of the next-course query; with
\* "n" or "next" the result of the next-course query; the empty token is no
\* special case: it is matched like any identifier and, as every name starts
\* with it, yields every scheduled course in schedule order (or the courses with
\* an empty abbreviation, if there are any).
C10_AbsentIsOngoingOrNext ==
    query.kind = "get_course_from_argument" =>
        /\ query.argument = None => answer = OngoingOrNext
        /\ query.argument \in {"n", "next"} => answer = NextCourse(files, today)
        /\ query.argument = "" => answer = EmptyIdentifierMatch

\* C10's case: the empty token was given while a course was ongoing, and both
\* scheduled courses were returned
C10_Witness ==
    /\ query.kind = "get_course_from_argument"
    /\ query.argument = ""
    /\ GetOngoingCourse(files, today).kind = "course"
    /\ answer = [kind |-> "list", courses |-> <<LA_lecture, UV_practical>>]

\* C10's other case: no token was given, no course was ongoing and the next
\* course was returned
C10_WitnessNext ==
    /\ query.kind = "get_course_from_argument"
    /\ query.argument = None
    /\ today = Now(6, 23, 59)
    /\ answer = [kind |-> "list", courses |-> <<PR_practical>>]

-----------------------------------------------------------------------------
(* Properties of the identifier match *)

Range(s) == {s[i] : i \in DOMAIN s}

\* the abbreviation joined to the type name by "-"
OwnIdentifier(c) == c.abbreviation \o "-" \o c.type

\* the abbreviation joined to the first letter of the type name by "-"
FirstLetterIdentifier(c) == c.abbreviation \o "-" \o Char(c.type, 1)

HasDash(s) == \E i \in 1..Len(s) : Char(s, i) = "-"

\* C11 (as stated): for every course of the folder, scheduled or not and of
\* any type name, get_course_from_argument called with the abbreviation joined
\* to the type name by "-" returns a list that includes the course.
C11_OwnIdentifierMatches ==
    query.kind = "get_course_from_argument" =>
        \A i \in DOMAIN files :
            query.argument = OwnIdentifier(files[i]) =>
                /\ answer.kind = "list"
                /\ files[i] \in Range(answer.courses)

\* C11 (amended): for every course that get_sorted_courses() returns, which
\* are the scheduled ones, get_course_from_argument called with the
\* abbreviation joined by "-" to the first letter of the type name returns a
\* list that includes the course, when the abbreviation holds no "-" and that
\* letter is not upper case; called with the abbreviation joined to a type name
\* that is longer than one letter before any "-" it returns the empty list.
C11_FirstLetterIdentifierMatches ==
    query.kind = "get_course_from_argument" =>
        LET sorted == GetSortedCourses(files, FALSE)
        IN  sorted.kind = "list" =>
                \A i \in DOMAIN sorted.courses :
                    LET c == sorted.courses[i]
                    IN  /\ ( /\ query.argument = FirstLetterIdentifier(c)
                             /\ ~HasDash(c.abbreviation)
                             /\ Lower(Char(c.type, 1)) = Char(c.type, 1) )
                           => /\ answer.kind = "list"
                              /\ c \in Range(answer.courses)
                        /\ ( /\ query.argument = OwnIdentifier(c)
                             /\ ~HasDash(c.abbreviation)
                             /\ Len(Split(c.type)[1]) > 1 )
                           => /\ answer.kind = "list"
                              /\ answer.courses = <<>>

\* a scheduled course is found by its abbreviation and the first letter of
\* its type, next to the other course of that abbreviation
C11_Witness ==
    /\ query.kind = "get_course_from_argument"
    /\ query.argument = "LA-l"
    /\ LA_practical \in Range(files)
    /\ answer.kind = "list"
    /\ answer.courses = <<LA_lecture>>

-----------------------------------------------------------------------------
(* The actions on courses *)

\* the website field of a course definition, None when it has none
WebsiteOf(c) ==
    CASE c \in {LA_lecture, LA_practical} -> "https://la.example"
      [] c = UV_lecture -> "https://uv.example"
      [] OTHER -> None

\* c.finals is not None
HasFinals(c) == c \in {LA_lecture, UV_practical, PR_practical}

\* c.finals.date, as a day number
FinalsDate(c) ==
    CASE c = LA_lecture -> 20
      [] c = UV_practical -> 12
      [] c = PR_practical -> 20

\* how a call of an action ends: kind, the exit status of the process, the
\* message written to stderr, what the action did, and the table it printed
Outcome(kind, code, message, effect, table) ==
    [kind |-> kind, code |-> code, message |-> message, effect |-> effect,
     table |-> table]

\* sys.exit(message): the message goes to stderr and the exit status is 1
SysExit(message) == Outcome("sys_exit", 1, message, "none", <<>>)

\* the action returns and the interpreter exits with status 0
Return(effect, table) == Outcome("return", 0, None, effect, table)

\* an exception no handler catches: traceback, exit status 1
Raise(error) == Outcome("traceback", 1, error, "none", <<>>)

\* all([s[i] == s[i + 1] for i in range(len(s) - 1)]), s the courses' values
AllSame(s) == \A i \in 1..(Len(s) - 1) : s[i] = s[i + 1]

\* the values of courses[i].abbreviation and of courses[i].website
Abbreviations(courses) == [i \in DOMAIN courses |-> courses[i].abbreviation]

Websites(courses) == [i \in DOMAIN courses |-> WebsiteOf(courses[i])]

\* open_course(kind, argument); has_notes is os.path.isfile of notes.xopp
OpenCourse(kind, arg, fs, now, has_notes) ==
    LET found == GetCourseFromArgument(arg, fs, now)
    IN  IF found.kind # "list" THEN Raise(found.kind)
        ELSE LET courses == found.courses
             IN  IF Len(courses) = 0
                 THEN SysExit("No course matching the criteria.")
                 ELSE IF Len(courses) = 1
                 THEN LET course == courses[1]
                      IN  IF course = NoCourse THEN Raise("AttributeError")
                          ELSE IF kind = "website"
                          THEN IF WebsiteOf(course) # None
                               THEN Return("open_in_firefox", <<>>)
                               ELSE SysExit("The course has no website.")
                          ELSE IF kind = "folder"
                          THEN Return("open_in_ranger", <<>>)
                          ELSE IF ~has_notes
                          THEN SysExit("The course has no notes.")
                          ELSE Return("open_in_xournalpp", <<>>)
                 ELSE IF kind = "folder" /\ AllSame(Abbreviations(courses))
                 THEN Return("open_in_ranger", <<>>)
                 ELSE IF kind = "website" /\ AllSame(Websites(courses))
                 THEN Return("open_in_firefox", <<>>)
                 ELSE SysExit("Multiple courses matching the identifier.")

\* list_attribute(argument, attribute): what is printed is the table's one row
ListAttribute(arg, attribute, fs, now) ==
    LET found == GetCourseFromArgument(arg, fs, now)
    IN  IF found.kind # "list" THEN Raise(found.kind)
        ELSE LET courses == found.courses
             IN  IF Len(courses) = 0
                 THEN SysExit("No course matching the criteria.")
                 ELSE IF Len(courses) # 1
                 THEN SysExit("Multiple courses matching the identifier.")
                 ELSE IF attribute = ""
                 THEN Return("print", <<courses[1].name>>)
                 ELSE IF courses[1] = NoCourse \/ attribute \notin DOMAIN courses[1]
                 THEN Return("print", <<"The course does not contain this attribute.">>)
                 ELSE Return("print", <<courses[1][attribute]>>)

WD_CZ == <<"ponde'li'", "u'tery'", "str'eda", "c'tvrtek", "pa'tek", "sobota", "nede'le">>

\* the upper-case letter of each lower-case letter
UpperOf == [c \in LowerLetters |-> Char(UPPER, OrdLower[c])]

\* str.capitalize
Capitalize(s) ==
    IF s = "" THEN ""
    ELSE (IF Char(s, 1) \in LowerLetters THEN UpperOf[Char(s, 1)] ELSE Char(s, 1))
             \o Lower(SubSeq(s, 2, Len(s)))

\* weekday_to_cz, for a day that WD_EN holds
WeekdayToCz(day) == WD_CZ[WeekdayIndex(day) + 1]

\* the keys of the options dictionary of list_courses
Options == {"", "t", "tm", "mo", "tu", "we", "th", "fr", "sa", "su"}

\* options[option](a, b): a is the current weekday, b the course's
OptionHolds(option, a, b) ==
    CASE option = "" -> TRUE
      [] option = "t" -> a = b
      [] option = "tm" -> (a + 1) % 7 = b
      [] option = "mo" -> b = 0
      [] option = "tu" -> b = 1
      [] option = "we" -> b = 2
      [] option = "th" -> b = 3
      [] option = "fr" -> b = 4
      [] option = "sa" -> b = 5
      [] option = "su" -> b = 6

\* a row of the table: the header of a weekday (its Czech name and the days
\* until its next occurrence) or a course with the name it is listed under
HeaderRow(c, now) ==
    [kind |-> "header", text |-> Capitalize(WeekdayToCz(c.time.day)),
     days |-> (Weekday(c) - now.weekday) % 7, course |-> c]

CourseRow(c, now, sh) ==
    [kind |-> "course", text |-> IF sh THEN c.abbreviation ELSE c.name,
     days |-> (Weekday(c) - now.weekday) % 7, course |-> c]

\* courses[i - 1], 1-based: index -1 is the last course
Previous(courses, i) == IF i = 1 THEN courses[Len(courses)] ELSE courses[i - 1]

\* the rows the loop of list_courses appends from index i on
RECURSIVE TableRows(_, _, _, _, _)
TableRows(courses, i, option, now, sh) ==
    IF i > Len(courses) THEN <<>>
    ELSE (IF OptionHolds(option, now.weekday, Weekday(courses[i]))
          THEN (IF Previous(courses, i).time.day # courses[i].time.day
                THEN <<HeaderRow(courses[i], now)>>
                ELSE <<>>) \o <<CourseRow(courses[i], now, sh)>>
          ELSE <<>>) \o TableRows(courses, i + 1, option, now, sh)

\* list_courses(option); get_sorted_courses() leaves no unscheduled course
ListCourses(option, fs, now, sh) ==
    LET sorted == GetSortedCourses(fs, FALSE)
    IN  IF sorted.kind # "list" THEN Raise(sorted.kind)
        ELSE IF Len(sorted.courses) # 0 /\ option \notin Options
        THEN SysExit("Invalid option!")
        ELSE LET table == IF option \in Options
                          THEN TableRows(sorted.courses, 1, option, now, sh)
                          ELSE <<>>
             IN  IF Len(table) = 0
                 THEN SysExit("No courses matching the criteria found!")
                 ELSE Return("print_table", table)

\* f"No updates since {mtime_string}.", whatever the date of the cache file
NoUpdatesSince == "No updates since {mtime_string}."

\* sorted(finals_courses, key=lambda c: c.finals.date), stable
RECURSIVE InsertFinals(_, _)
InsertFinals(x, s) ==
    IF s = <<>> THEN <<x>>
    ELSE IF FinalsDate(x) < FinalsDate(Head(s)) THEN <<x>> \o s
    ELSE <<Head(s)>> \o InsertFinals(x, Tail(s))

RECURSIVE SortFinals(_)
SortFinals(s) ==
    IF s = <<>> THEN <<>>
    ELSE InsertFinals(s[Len(s)], SortFinals(SubSeq(s, 1, Len(s) - 1)))

\* list_finals(): the table holds the title row and a row per course
ListFinals(fs) ==
    LET sorted == GetSortedCourses(fs, FALSE)
    IN  IF sorted.kind # "list" THEN Raise(sorted.kind)
        ELSE LET finals_courses == SelectSeq(sorted.courses, HasFinals)
             IN  IF Len(finals_courses) = 0
                 THEN SysExit("No finals added!")
                 ELSE Return("print_table",
                             <<"Finals!">> \o
                             [i \in DOMAIN finals_courses |->
                                 SortFinals(finals_courses)[i].name])

-----------------------------------------------------------------------------
(* Runs of the actions on courses *)

\* the course queries the actions are called with
CourseQueries == {None, "next", "LA-p", "la", "uv", "x"}

\* the values of datetime.today() the actions run at
ActionNows == {Now(0, 9, 30), Now(1, 0, 0)}

InitActions ==
    /\ files \in DistinctSeqs(Pool, MaxCourses)
    /\ today = Now(0, 0, 0)
    /\ query = [kind |-> "none"]
    /\ answer = [kind |-> "pending"]
    /\ argv = <<>>
    /\ arguments = <<>>
    /\ decision_tree = ProgramTree
    /\ parsed_arguments = <<>>
    /\ argument = None
    /\ pc = "action"
    /\ output = <<>>
    /\ status = "running"
    /\ calls = <<>>
    /\ short \in BOOLEAN
    /\ crontab = ""
    /\ website = ""
    /\ cache = None
    /\ frame = [pc |-> "idle"]

\* the outcome of an action ends the process
Ends(outcome) ==
    /\ answer' = outcome
    /\ status' = IF outcome.kind = "return" THEN "exit0"
                 ELSE IF outcome.kind = "sys_exit" THEN "exit1"
                 ELSE "traceback"
    /\ pc' = "done"

CallOpenCourse ==
    /\ pc = "action"
    /\ \E kind \in {"website", "folder", "notes"}, arg \in CourseQueries :
       \E now \in IF arg \in ClockArguments THEN ActionNows ELSE {today} :
       \E has_notes \in IF kind = "notes" THEN BOOLEAN ELSE {FALSE} :
          /\ today' = now
          /\ query' = [kind |-> "open_course", argument |-> arg, bound |-> kind]
          /\ Ends(OpenCourse(kind, arg, files, now, has_notes))
    /\ UNCHANGED <<files, arguments, decision_tree, parsed_arguments, argument,
                   output, calls, argv>>
    /\ UNCHANGED worldVars

CallListAttribute ==
    /\ pc = "action"
    /\ \E attribute \in {"", "name", "nope"}, arg \in CourseQueries :
       \E now \in IF arg \in ClockArguments THEN ActionNows ELSE {today} :
          /\ today' = now
          /\ query' = [kind |-> "list_attribute", argument |-> arg,
                       bound |-> attribute]
          /\ Ends(ListAttribute(arg, attribute, files, now))
    /\ UNCHANGED <<files, arguments, decision_tree, parsed_arguments, argument,
                   output, calls, argv>>
    /\ UNCHANGED worldVars

CallListCourses ==
    /\ pc = "action"
    /\ \E option \in {"", "t", "tm", "mo", "tu", "zz"}, now \in ActionNows :
          /\ today' = now
          /\ query' = [kind |-> "list_courses", argument |-> option,
                       bound |-> None]
          /\ Ends(ListCourses(option, files, now, short))
    /\ UNCHANGED <<files, arguments, decision_tree, parsed_arguments, argument,
                   output, calls, argv>>
    /\ UNCHANGED worldVars

CallListFinals ==
    /\ pc = "action"
    /\ query' = [kind |-> "list_finals", argument |-> None, bound |-> None]
    /\ Ends(ListFinals(files))
    /\ UNCHANGED <<files, today, arguments, decision_tree, parsed_arguments,
                   argument, output, calls, argv>>
    /\ UNCHANGED worldVars

NextActions ==
    \/ CallOpenCourse
    \/ CallListAttribute
    \/ CallListCourses
    \/ CallListFinals

SpecActions == InitActions /\ [][NextActions]_vars

-----------------------------------------------------------------------------
(* Properties of the actions on courses *)

\* the course query of the running action resolves to no course: the list
\* get_course_from_argument returns holds no course
ResolvesToNoCourse ==
    LET found == GetCourseFromArgument(query.argument, files, today)
    IN  /\ found.kind = "list"
        /\ \A i \in DOMAIN found.courses : found.courses[i] = NoCourse

\* C12: whenever the course query of open_course, list_attribute or
\* check_course_website resolves to no course, for any token including the
\* absent one and "n"/"next" with no course scheduled, the action reports "No
\* course matching the criteria." and exits with a status other than zero; it
\* neither dereferences a missing course nor ends in an unhandled fault.
C12_NoCourseIsReported ==
    ( /\ query.kind \in {"open_course", "list_attribute", "check_course_website"}
      /\ answer.kind # "pending"
      /\ ResolvesToNoCourse )
    => /\ answer = SysExit("No course matching the criteria.")
       /\ status = "exit1"

\* the messages of the exits that report that there is nothing to show
InformationalMessages ==
    {"No finals added!", "No courses matching the criteria found!",
     "Cache file created.", NoUpdatesSince}

\* C16: the process exits with status 0 when an action completes and on the
\* informational exits (no finals added, no course matching the list filter,
\* cache file created, no website updates since the last check), and with a
\* status other than zero when it ends in a fault.
C16_InformationalExitsAreZero ==
    answer.kind \in {"return", "sys_exit", "traceback"} =>
        /\ answer.kind = "return" => answer.code = 0
        /\ (answer.kind = "sys_exit" /\ answer.message \in InformationalMessages)
               => answer.code = 0
        /\ answer.kind = "traceback" => answer.code # 0

\* the indices of the header rows of weekday w in table t
HeadersOf(t, w) ==
    {j \in DOMAIN t : t[j].kind = "header" /\ Weekday(t[j].course) = w}

\* the indices of the course rows of weekday w in table t
CoursesOf(t, w) ==
    {j \in DOMAIN t : t[j].kind = "course" /\ Weekday(t[j].course) = w}

\* C20: in the table list_courses prints, each weekday with at least one
\* listed course has exactly one header row, and it stands immediately before
\* the first listed course of that weekday; this includes the first weekday
\* when all courses, or the first and the last, are on one weekday, and a
\* schedule of a single course.
C20_OneHeaderPerListedWeekday ==
    (query.kind = "list_courses" /\ answer.kind = "return") =>
        \A w \in 0..6 :
            CoursesOf(answer.table, w) # {} =>
                HeadersOf(answer.table, w) =
                    {(CHOOSE j \in CoursesOf(answer.table, w) :
                         \A k \in CoursesOf(answer.table, w) : j <= k) - 1}

-----------------------------------------------------------------------------
(* Loading the course definitions *)

\* the values safe_load yields, with their Python type; AbsentValue stands for
\* a key the mapping does not hold
StrValue(s) == [t |-> "str", s |-> s, n |-> 0]

IntValue(n) == [t |-> "int", s |-> "", n |-> n]

NullValue == [t |-> "NoneType", s |-> "", n |-> 0]

AbsentValue == [t |-> "absent", s |-> "", n |-> 0]

\* a .yaml file of the courses folder: its path and what safe_load makes of
\* it; time_kind tells whether the time key is absent, null or a mapping
Definition(path, time_kind, day, start, end, site) ==
    [path |-> path, time_kind |-> time_kind, day |-> day, start |-> start,
     end |-> end, website |-> site]

\* the annotations of Time that have no default, in order
TimeAnnotations == <<"day", "start", "end">>

\* the annotated types of Time.day, Time.start, Time.end and Course.website
DeclaredType == [day |-> "str", start |-> "int", end |-> "int", website |-> "str"]

\* Strict.__post_init__ raises TypeError for the field: its value is not None
\* and is no instance of the annotated type
StrictRaises(d, name) == d[name].t \notin {"NoneType", "absent", DeclaredType[name]}

\* what Course.from_dictionary(course_dict) raises: the kind of the exception
\* and the keys its message names; kind "none" when the Course is built
FromDictionary(d) ==
    LET missing == {TimeAnnotations[i] : i \in {j \in DOMAIN TimeAnnotations :
                                                 d[TimeAnnotations[j]].t = "absent"}}
        wrong == {i \in DOMAIN TimeAnnotations : StrictRaises(d, TimeAnnotations[i])}
    IN  IF d.time_kind = "null"
        THEN [kind |-> "TypeError", names |-> {}]
        ELSE IF d.time_kind = "mapping" /\ missing # {}
        THEN [kind |-> "TypeError", names |-> missing]
        ELSE IF d.time_kind = "mapping" /\ wrong # {}
        THEN [kind |-> "TypeError",
              names |-> {TimeAnnotations[CHOOSE i \in wrong : \A j \in wrong : i <= j]}]
        ELSE IF StrictRaises(d, "website")
        THEN [kind |-> "TypeError", names |-> {"website"}]
        ELSE [kind |-> "none", names |-> {}]

\* sys.exit(f"ERROR in {path}: {e}"): the path and the keys the message names
Rejected(path, names) ==
    [kind |-> "sys_exit", code |-> 1, path |-> path, names |-> names, courses |-> <<>>]

\* the loop over the files from index i on; courses holds what was appended
RECURSIVE LoadLoop(_, _, _, _)
LoadLoop(fs, i, include_unscheduled, courses) ==
    IF i > Len(fs) THEN [kind |-> "loaded", code |-> 0, path |-> None, names |-> {},
                         courses |-> courses]
    ELSE IF fs[i].time_kind # "absent" \/ include_unscheduled
    THEN IF FromDictionary(fs[i]).kind # "none"
         THEN Rejected(fs[i].path, FromDictionary(fs[i]).names)
         ELSE LoadLoop(fs, i + 1, include_unscheduled, Append(courses, fs[i]))
    ELSE LoadLoop(fs, i + 1, include_unscheduled, courses)

\* what the key function raises for a loaded course: c.weekday() on a day of
\* None or on a day WD_EN does not hold
KeyRaises(c) ==
    IF c.time_kind = "absent" THEN "none"
    ELSE IF c.day.t = "NoneType" THEN "AttributeError"
    ELSE IF WeekdayRaises(c.day.s) THEN "ValueError"
    ELSE "none"

\* the key of a loaded course; its second part may be None
LoadedKey(c) ==
    IF c.time_kind = "absent" THEN <<0, IntValue(0)>>
    ELSE <<WeekdayIndex(c.day.s), c.start>>

\* comparing the keys raises TypeError: equal weekdays, and None against int
KeysIncomparable(x, y) ==
    /\ LoadedKey(x)[1] = LoadedKey(y)[1]
    /\ LoadedKey(x)[2].t # LoadedKey(y)[2].t

LoadedLess(x, y) ==
    PairLess(<<LoadedKey(x)[1], LoadedKey(x)[2].n>>,
             <<LoadedKey(y)[1], LoadedKey(y)[2].n>>)

RECURSIVE InsertLoaded(_, _)
InsertLoaded(x, s) ==
    IF s = <<>> THEN <<x>>
    ELSE IF LoadedLess(x, Head(s)) THEN <<x>> \o s
    ELSE <<Head(s)>> \o InsertLoaded(x, Tail(s))

RECURSIVE SortLoaded(_)
SortLoaded(s) ==
    IF s = <<>> THEN <<>>
    ELSE InsertLoaded(s[Len(s)], SortLoaded(SubSeq(s, 1, Len(s) - 1)))

\* an exception get_sorted_courses does not catch
Fault(error) ==
    [kind |-> "traceback", code |-> 1, path |-> None, names |-> {error},
     courses |-> <<>>]

\* get_sorted_courses over the .yaml files fs: the fatal exit, the exception
\* of the sort, or the sorted list
LoadSortedCourses(fs, include_unscheduled) ==
    LET loaded == LoadLoop(fs, 1, include_unscheduled, <<>>)
        courses == loaded.courses
        raising == {i \in DOMAIN courses : KeyRaises(courses[i]) # "none"}
    IN  IF loaded.kind # "loaded" THEN loaded
        ELSE IF raising # {}
        THEN Fault(KeyRaises(courses[CHOOSE i \in raising : \A j \in raising : i <= j]))
        ELSE IF \E i, j \in DOMAIN courses : KeysIncomparable(courses[i], courses[j])
        THEN Fault("TypeError")
        ELSE [kind |-> "list", code |-> 0, path |-> None, names |-> {},
              courses |-> SortLoaded(courses)]

-----------------------------------------------------------------------------
(* Runs of the loader *)

\* the .yaml files a courses folder is made of: well-formed ones, ones with a
\* value of a wrong type, without a value, without a key, with start after
\* end, with a day that is no weekday, and ones without a time section
Definitions ==
    {Definition("Linear Algebra (LA)/lecture/info.yaml", "mapping",
                StrValue("monday"), IntValue(540), IntValue(630),
                StrValue("https://la.example")),
     Definition("U'vod (UV)/practical/info.yaml", "mapping",
                StrValue("Tuesday"), IntValue(0), IntValue(90), AbsentValue),
     Definition("Analysis (AN)/lecture/info.yaml", "mapping",
                StrValue("monday"), StrValue("9:00"), IntValue(630), AbsentValue),
     Definition("Logic (LO)/lecture/info.yaml", "mapping",
                StrValue("monday"), NullValue, IntValue(630), AbsentValue),
     Definition("Logic (LO)/practical/info.yaml", "mapping",
                StrValue("friday"), IntValue(540), NullValue, AbsentValue),
     Definition("Graphs (GR)/lecture/info.yaml", "mapping",
                StrValue("monday"), IntValue(540), AbsentValue, AbsentValue),
     Definition("Graphs (GR)/practical/info.yaml", "mapping",
                StrValue("wednesday"), IntValue(630), IntValue(540), NullValue),
     Definition("Algebra (AL)/lecture/info.yaml", "mapping",
                StrValue("funday"), IntValue(540), IntValue(630), AbsentValue),
     Definition("Algebra (AL)/practical/info.yaml", "mapping",
                NullValue, IntValue(540), IntValue(630), AbsentValue),
     Definition("Optics (OP)/lecture/info.yaml", "mapping",
                IntValue(1), IntValue(540), IntValue(630), AbsentValue),
     Definition("Optics (OP)/practical/info.yaml", "null",
                AbsentValue, AbsentValue, AbsentValue, AbsentValue),
     Definition("Physics (PH)/lecture/info.yaml", "mapping",
                StrValue("thursday"), IntValue(540), IntValue(630), IntValue(5)),
     Definition("Seminar (SE)/seminar/info.yaml", "absent",
                AbsentValue, AbsentValue, AbsentValue, StrValue("https://se.example")),
     Definition("Physics (PH)/seminar/info.yaml", "absent",
                AbsentValue, AbsentValue, AbsentValue, IntValue(5))}

InitLoad ==
    /\ files \in DistinctSeqs(Definitions, MaxCourses)
    /\ today = Now(0, 0, 0)
    /\ query = [kind |-> "none"]
    /\ answer = [kind |-> "pending"]
    /\ argv = <<>>
    /\ arguments = <<>>
    /\ decision_tree = ProgramTree
    /\ parsed_arguments = <<>>
    /\ argument = None
    /\ pc = "load"
    /\ output = <<>>
    /\ status = "running"
    /\ calls = <<>>
    /\ InitWorld0

\* a call of get_sorted_courses on the folder
CallLoadSortedCourses ==
    /\ pc = "load"
    /\ \E include_unscheduled \in BOOLEAN :
          /\ query' = [kind |-> "get_sorted_courses",
                       include_unscheduled |-> include_unscheduled]
          /\ answer' = LoadSortedCourses(files, include_unscheduled)
    /\ pc' = "done"
    /\ UNCHANGED <<files, today, arguments, decision_tree, parsed_arguments,
                   argument, output, status, calls, argv>>
    /\ UNCHANGED worldVars

NextLoad == CallLoadSortedCourses

SpecLoad == InitLoad /\ [][NextLoad]_vars

-----------------------------------------------------------------------------
(* Properties of the loader *)

\* the fields of a definition whose value is not of the declared type, a
\* required field without a value included
IllTypedFields(d) ==
    {name \in {"day", "start", "end"} :
        d.time_kind = "mapping" /\ d[name].t # DeclaredType[name]}
    \cup {name \in {"website"} : d[name].t \notin {"absent", "NoneType", "str"}}

\* C13: loading rejects every definition in which the value of some field is
\* not of the declared type (time.start given as a string, a required field
\* given without a value): the load aborts with a fatal message that names the
\* file and the field, and returns no course list.
C13_IllTypedDefinitionsAreRejected ==
    (query.kind = "get_sorted_courses" /\
     \E i \in DOMAIN files : IllTypedFields(files[i]) # {})
    => /\ answer.kind = "sys_exit"
       /\ \E i \in DOMAIN files :
             /\ answer.path = files[i].path
             /\ answer.names \cap IllTypedFields(files[i]) # {}

\* C14: every course a successful load returns has no time, or a time whose
\* day, start and end are all populated, with start < end and the day one of
\* the seven canonical names; a definition violating this reaches neither the
\* sorted schedule nor the queries.
C14_ReturnedTimesAreWellFormed ==
    (query.kind = "get_sorted_courses" /\ answer.kind = "list") =>
        \A i \in DOMAIN answer.courses :
            LET c == answer.courses[i]
            IN  \/ c.time_kind = "absent"
                \/ /\ c.day.t = "str" /\ c.start.t = "int" /\ c.end.t = "int"
                   /\ c.start.n < c.end.n
                   /\ Lower(c.day.s) \in CanonicalDays

-----------------------------------------------------------------------------
(* Parsing the flags *)

\* the tokens a command line with flags is made of
FlagTokens == {"--short", "-s", "-x", "list", "c"}

\* list.pop(i) leaves the list without its element at the 0-based index i
WithoutIndex(s, i) == SubSeq(s, 1, i) \o SubSeq(s, i + 2, Len(s))

InitFlags ==
    /\ argv \in SeqsUpTo(FlagTokens, MaxArgs)
    /\ arguments = argv
    /\ decision_tree = ProgramTree
    /\ parsed_arguments = <<>>
    /\ argument = None
    /\ pc = "flags"
    /\ output = <<>>
    /\ status = "running"
    /\ calls = <<>>
    /\ InitSchedule0
    /\ short = FALSE
    /\ crontab = ""
    /\ website = ""
    /\ cache = None
    /\ frame = [pc |-> "flags", i |-> 0]

\* one iteration of the loop: a token that is no flag is stepped over
SkipToken ==
    /\ pc = "flags"
    /\ frame.i < Len(arguments)
    /\ ~StartsWith(arguments[frame.i + 1], "-")
    /\ frame' = [frame EXCEPT !.i = frame.i + 1]
    /\ UNCHANGED <<short, crontab, website, cache>>
    /\ UNCHANGED dispatchVars
    /\ UNCHANGED scheduleVars

\* one iteration of the loop: a flag is popped, and i is incremented as well
PopFlag ==
    /\ pc = "flags"
    /\ frame.i < Len(arguments)
    /\ StartsWith(arguments[frame.i + 1], "-")
    /\ argument' = arguments[frame.i + 1]
    /\ arguments' = WithoutIndex(arguments, frame.i)
    /\ short' = IF argument' \in {"--short", "-s"} THEN TRUE ELSE short
    /\ frame' = [frame EXCEPT !.i = frame.i + 1]
    /\ UNCHANGED <<crontab, website, cache>>
    /\ UNCHANGED <<decision_tree, parsed_arguments, pc, output, status, calls, argv>>
    /\ UNCHANGED scheduleVars

\* the loop ends: i is not below len(arguments)
FlagsParsed ==
    /\ pc = "flags"
    /\ frame.i >= Len(arguments)
    /\ pc' = "list_help"
    /\ frame' = [frame EXCEPT !.pc = "parsed"]
    /\ UNCHANGED <<short, crontab, website, cache>>
    /\ UNCHANGED <<arguments, decision_tree, parsed_arguments, argument, output,
                   status, calls, argv>>
    /\ UNCHANGED scheduleVars

NextFlags ==
    \/ SkipToken
    \/ PopFlag
    \/ FlagsParsed

SpecFlags == InitFlags /\ [][NextFlags]_vars

-----------------------------------------------------------------------------
(* Properties of the flag parsing *)

IsFlag(token) == StartsWith(token, "-")

\* C18: after the flags were parsed, for every argument list, no token that
\* starts with "-" is left among the arguments, the other tokens keep their
\* order, and short is set exactly if "--short" or "-s" occurred among the
\* original tokens; this holds as well when several flags are adjacent.
C18_FlagsAreStripped ==
    frame.pc = "parsed" =>
        /\ \A k \in DOMAIN arguments : ~IsFlag(arguments[k])
        /\ arguments = SelectSeq(argv, LAMBDA token : ~IsFlag(token))
        /\ short = (\E k \in DOMAIN argv : argv[k] \in {"--short", "-s"})

-----------------------------------------------------------------------------
(* Checking a course website *)

\* the texts the course website serves over time
Versions == {"<p>v1</p>", "<p>v2</p>"}

\* the course queries check_course_website is called with
WebsiteQueries == {None, "la", "uv", "UV-l", "x"}

InitWebsite ==
    /\ files \in DistinctSeqs(Pool, MaxCourses)
    /\ today = Now(0, 9, 30)
    /\ query = [kind |-> "none"]
    /\ answer = [kind |-> "pending"]
    /\ argv = <<>>
    /\ arguments = <<>>
    /\ decision_tree = ProgramTree
    /\ parsed_arguments = <<>>
    /\ argument = None
    /\ pc = "action"
    /\ output = <<>>
    /\ status = "running"
    /\ calls = <<>>
    /\ short = FALSE
    /\ crontab = ""
    /\ website \in Versions
    /\ cache \in {None} \cup Versions
    /\ frame = [pc |-> "idle", cached_code |-> None, current_code |-> None]

\* check_course_website up to the exits that come before the website is read
CheckCourseWebsiteExits(arg, fs, now) ==
    LET found == GetCourseFromArgument(arg, fs, now)
    IN  IF found.kind # "list" THEN Raise(found.kind)
        ELSE LET courses == found.courses
             IN  IF Len(courses) = 0
                 THEN SysExit("No course matching the criteria.")
                 ELSE IF Len(courses) > 1 /\ ~AllSame(Websites(courses))
                 THEN SysExit("Multiple courses matching the identifier.")
                 ELSE IF courses[1] = NoCourse
                 THEN Raise("AttributeError")
                 ELSE IF WebsiteOf(courses[1]) = None
                 THEN SysExit("The course has no website.")
                 ELSE Return("none", <<>>)

\* the courses are resolved, the cache file is read and the website fetched
ReadCacheAndWebsite ==
    /\ pc = "action"
    /\ frame.pc = "idle"
    /\ \E arg \in WebsiteQueries :
          /\ query' = [kind |-> "check_course_website", argument |-> arg,
                       bound |-> None]
          /\ LET exits == CheckCourseWebsiteExits(arg, files, today)
             IN  IF exits.kind # "return"
                 THEN /\ Ends(exits)
                      /\ frame' = frame
                 ELSE /\ frame' = [pc |-> "fetched", cached_code |-> cache,
                                   current_code |-> website]
                      /\ UNCHANGED <<answer, status, pc>>
    /\ UNCHANGED <<files, today, arguments, decision_tree, parsed_arguments,
                   argument, output, calls, argv>>
    /\ UNCHANGED <<short, crontab, website, cache>>

\* courses[0].update_website_cache(): the website is fetched once more and
\* what it serves now is written to the cache file
UpdateWebsiteCache ==
    /\ pc = "action"
    /\ frame.pc = "fetched"
    /\ cache' = website
    /\ frame' = [frame EXCEPT !.pc = "updated"]
    /\ UNCHANGED <<short, crontab, website>>
    /\ UNCHANGED dispatchVars
    /\ UNCHANGED scheduleVars

\* the comparison of the two texts read first; diff compares the cache file
\* as it is now with current_code
ReportChanges ==
    /\ pc = "action"
    /\ frame.pc = "updated"
    /\ Ends(IF frame.cached_code = None THEN SysExit("Cache file created.")
            ELSE IF frame.cached_code = frame.current_code
            THEN SysExit(NoUpdatesSince)
            ELSE Return("diff", <<cache, frame.current_code>>))
    /\ frame' = [frame EXCEPT !.pc = "reported"]
    /\ UNCHANGED <<files, today, query, arguments, decision_tree, parsed_arguments,
                   argument, output, calls, argv>>
    /\ UNCHANGED <<short, crontab, website, cache>>

\* the website is edited while the command runs
WebsiteChanges ==
    /\ pc = "action"
    /\ frame.pc = "fetched"
    /\ \E text \in Versions \ {website} : website' = text
    /\ UNCHANGED <<short, crontab, cache, frame>>
    /\ UNCHANGED dispatchVars
    /\ UNCHANGED scheduleVars

NextWebsite ==
    \/ ReadCacheAndWebsite
    \/ UpdateWebsiteCache
    \/ ReportChanges
    \/ WebsiteChanges

SpecWebsite == InitWebsite /\ [][NextWebsite]_vars

-----------------------------------------------------------------------------
(* Properties of the website check *)

\* C19: in check_course_website the text written to the cache is the very
\* text that was compared with the previous cache and diffed, even if the
\* website changes while the command runs.
C19_PersistedTextIsComparedText ==
    frame.pc \in {"updated", "reported"} => cache = frame.current_code

-----------------------------------------------------------------------------
(* Compiling the cron jobs *)

\* the most runs of compile_cron_jobs in a row
MaxRuns == 2

NL == "\n"

\* cron_file_comments
BEGINNING == "# BEGINNING: course schedule crons (autogenerated, do not change)"

END == "# END: course schedule crons"

\* str.strip
RECURSIVE Strip(_)
Strip(s) ==
    IF s = "" THEN ""
    ELSE IF Char(s, 1) \in {" ", NL} THEN Strip(SubSeq(s, 2, Len(s)))
    ELSE IF Char(s, Len(s)) \in {" ", NL} THEN Strip(SubSeq(s, 1, Len(s) - 1))
    ELSE s

\* f.readlines(): every line keeps its newline, the last one may have none
RECURSIVE ReadLines(_)
ReadLines(text) ==
    IF text = "" THEN <<>>
    ELSE IF \E i \in 1..Len(text) : Char(text, i) = NL
    THEN LET i == CHOOSE j \in 1..Len(text) :
                     /\ Char(text, j) = NL
                     /\ \A k \in 1..(j - 1) : Char(text, k) # NL
         IN  <<SubSeq(text, 1, i)>> \o ReadLines(SubSeq(text, i + 1, Len(text)))
    ELSE <<text>>

\* the lines from index i on, written one after the other
RECURSIVE WriteLines(_, _)
WriteLines(contents, i) ==
    IF i > Len(contents) THEN ""
    ELSE contents[i] \o WriteLines(contents, i + 1)

\* get_cron_schedule
GetCronSchedule(time, day) ==
    ToString(time % 60) \o " " \o ToString(time \div 60) \o " * * " \o ToString(day + 1)

\* get_next_course_message; no course of the model has a classroom
GetNextCourseMessage(i, courses) ==
    IF i + 1 > Len(courses) \/ courses[i].time.day # courses[i + 1].time.day
    THEN "Dnes jiz' z'a'dny' dals'i' pr'edme't neni'."
    ELSE "Dals'i' pr'edme't je <i>" \o courses[i + 1].name \o " ("
             \o courses[i + 1].type \o ")</i>, ktery' zac'i'na' <i>"
             \o ToString(courses[i + 1].time.start - courses[i].time.end)
             \o " minut</i> po tomto."

\* the line of a cron job; os.getlogin() is "user"
JobLine(cron_schedule, body) ==
    cron_schedule \o " " \o "user" \o " dunstify rozvrh '" \o body \o "'" \o NL

\* the two job lines of each course from index i on
RECURSIVE JobLines(_, _)
JobLines(courses, i) ==
    IF i > Len(courses) THEN ""
    ELSE JobLine(GetCronSchedule(courses[i].time.end - 5, Weekday(courses[i])),
                 GetNextCourseMessage(i, courses))
         \o JobLine(GetCronSchedule(courses[i].time.start, Weekday(courses[i])),
                    "pra've' zac'al pr'edme't <i>" \o courses[i].name \o " ("
                        \o courses[i].type \o ")</i>.")
         \o JobLines(courses, i + 1)

\* the first loop from index i on: the lines before the beginning comment are
\* written, the lines up to the end comment are skipped; rest is the index
\* of the first line after the section, 0 if the search for the end comment
\* runs off the list (IndexError)
RECURSIVE SkipSection(_, _)
SkipSection(contents, i) ==
    IF i > Len(contents) THEN 0
    ELSE IF Strip(contents[i]) # END THEN SkipSection(contents, i + 1)
    ELSE i + 1

RECURSIVE CopyHead(_, _, _)
CopyHead(contents, i, written) ==
    IF i > Len(contents) THEN [written |-> written, rest |-> i]
    ELSE IF Strip(contents[i]) = BEGINNING
    THEN [written |-> written, rest |-> SkipSection(contents, i)]
    ELSE CopyHead(contents, i + 1, written \o contents[i])

\* the text of the cron file after compile_cron_jobs wrote it
CronFileWritten(text, courses) ==
    LET contents == ReadLines(text)
        head == CopyHead(contents, 1, "")
    IN  head.written \o BEGINNING \o NL \o JobLines(courses, 1) \o END \o NL
            \o WriteLines(contents, head.rest)

\* compile_cron_jobs running as root: how it ends and what the file holds then
CompileCronJobs(text, fs) ==
    LET sorted == GetSortedCourses(fs, FALSE)
    IN  IF sorted.kind # "list"
        THEN [outcome |-> Raise(sorted.kind), text |-> text]
        ELSE IF CopyHead(ReadLines(text), 1, "").rest = 0
        THEN [outcome |-> Raise("IndexError"), text |-> text]
        ELSE [outcome |-> Return("print", <<>>),
              text |-> CronFileWritten(text, sorted.courses)]

-----------------------------------------------------------------------------
(* Runs of compile_cron_jobs *)

\* the section as an earlier version of the schedule left it
OldSection(jobs) == BEGINNING \o NL \o jobs \o END \o NL

\* the cron files: with no section, with a section at any place, with a
\* section that lacks its end comment, and each without a newline at the end
TerminatedCronFiles ==
    LET line1 == "MAILTO=root" \o NL
        line2 == "17 * * * * root run-parts /etc/cron.hourly" \o NL
        line3 == "  # local jobs" \o NL
    IN  {before \o section \o after :
            before \in {"", line1, line1 \o line2},
            section \in {"", OldSection(""), OldSection(JobLine("0 9 * * 1", "old")),
                         BEGINNING \o NL},
            after \in {"", line3}}

CronFiles ==
    TerminatedCronFiles
        \cup {SubSeq(text, 1, Len(text) - 1) : text \in TerminatedCronFiles \ {""}}

InitCron ==
    /\ files \in DistinctSeqs(Pool, MaxCourses)
    /\ today = Now(0, 0, 0)
    /\ query = [kind |-> "none"]
    /\ answer = [kind |-> "pending"]
    /\ argv = <<>>
    /\ arguments = <<>>
    /\ decision_tree = ProgramTree
    /\ parsed_arguments = <<>>
    /\ argument = None
    /\ pc = "action"
    /\ output = <<>>
    /\ status = "running"
    /\ calls = <<>>
    /\ short = FALSE
    /\ crontab \in CronFiles
    /\ website = ""
    /\ cache = None
    /\ frame = [pc |-> "idle", runs |-> 0, initial |-> crontab]

\* a run of 'school.py cron' as root, from the call to the end of the process
CallCompileCronJobs ==
    /\ pc = "action"
    /\ frame.runs < MaxRuns
    /\ query' = [kind |-> "compile_cron_jobs", argument |-> None, bound |-> None]
    /\ answer' = CompileCronJobs(crontab, files).outcome
    /\ crontab' = CompileCronJobs(crontab, files).text
    /\ frame' = [frame EXCEPT !.runs = frame.runs + 1]
    /\ UNCHANGED <<files, today>>
    /\ UNCHANGED <<short, website, cache>>
    /\ UNCHANGED dispatchVars

NextCron == CallCompileCronJobs

SpecCron == InitCron /\ [][NextCron]_vars

-----------------------------------------------------------------------------
(* Properties of compile_cron_jobs *)

\* the indices of the beginning and of the end comments among the lines
BeginningsOf(contents) == {i \in DOMAIN contents : Strip(contents[i]) = BEGINNING}

EndsOf(contents) == {i \in DOMAIN contents : Strip(contents[i]) = END}

\* a cron file with no section, or with one section: one beginning comment
\* and after it one end comment
HasNoSection(text) ==
    BeginningsOf(ReadLines(text)) = {} /\ EndsOf(ReadLines(text)) = {}

HasOneSection(text) ==
    /\ Cardinality(BeginningsOf(ReadLines(text))) = 1
    /\ Cardinality(EndsOf(ReadLines(text))) = 1
    /\ \A b \in BeginningsOf(ReadLines(text)), e \in EndsOf(ReadLines(text)) : b < e

SectionStart(text) == CHOOSE b \in BeginningsOf(ReadLines(text)) : TRUE

SectionEnd(text) == CHOOSE e \in EndsOf(ReadLines(text)) : TRUE

\* the lines outside the section, in order
OutsideLines(text) ==
    IF HasOneSection(text)
    THEN SubSeq(ReadLines(text), 1, SectionStart(text) - 1)
             \o SubSeq(ReadLines(text), SectionEnd(text) + 1, Len(ReadLines(text)))
    ELSE ReadLines(text)

\* the lines between the comments of the section
SectionLines(text) ==
    SubSeq(ReadLines(text), SectionStart(text) + 1, SectionEnd(text) - 1)

\* C15: compile_cron_jobs regenerates the section without disturbing
\* anything outside it: for every initial cron file (with no section, or with
\* one beginning/end section anywhere in the file) every line outside the
\* section is in the file after the run, byte for byte and in the same order,
\* and the section holds exactly two job lines per scheduled course.
C15_OutsideLinesAreKept ==
    [][(frame'.runs = frame.runs + 1 /\ (HasNoSection(crontab) \/ HasOneSection(crontab)))
       => /\ HasOneSection(crontab')
          /\ OutsideLines(crontab') = OutsideLines(crontab)
          /\ Len(SectionLines(crontab'))
                 = 2 * Len(SelectSeq(files, HasTime))]_vars

\* C17: regenerating the section is idempotent: from any cron file with no
\* section or one well-formed section, a last line without a newline
\* included, after any number of runs in a row the file holds exactly one
\* beginning and one end comment, and a second run leaves the file as the
\* first run left it.
C17_SecondRunChangesNothing ==
    [][(frame'.runs = frame.runs + 1 /\
        (HasNoSection(frame.initial) \/ HasOneSection(frame.initial)))
       => /\ HasOneSection(crontab')
          /\ frame.runs >= 1 => crontab' = crontab]_vars

=============================================================================
